---- MODULE Spec2Model ----
(***************************************************************************)
(* The archive ingestion core of birdapp (birdapp/storage/importer.py and  *)
(* birdapp/storage/search.py): import_archive opens a session on the       *)
(* store, import_archive_data walks the document record kind by record     *)
(* kind, upserts the rows, keeps the tweet_fts rows in step with the       *)
(* tweets and commits in batches.                                          *)
(*                                                                         *)
(* The store is modelled twice: `committed` is what the database holds     *)
(* after the last COMMIT, `working` is what the open session's transaction *)
(* sees.  Tables with a primary key the code reads by session.get are      *)
(* functions from the key; the other tables are bags of rows.              *)
(***************************************************************************)
EXTENDS Integers, Sequences, FiniteSets, Bags, TLC

\* ---------------------------------------------------------------- bounds
MaxRecs == 3
MaxImports == 2
MaxBatch == 2
MaxEmbeds == 2
MaxIndices == 3

\* ---------------------------------------------------------------- values
NONE == "<none>"

EmptyFn == [x \in {} |-> x]

\* Account ids are kept as tuples of characters so that str.strip() is
\* computed and not assumed.
IsSpace(c) == c = " "

RECURSIVE LStrip(_)
LStrip(s) == IF s # <<>> /\ IsSpace(Head(s)) THEN LStrip(Tail(s)) ELSE s

RECURSIVE RStrip(_)
RStrip(s) ==
    IF s # <<>> /\ IsSpace(s[Len(s)]) THEN RStrip(SubSeq(s, 1, Len(s) - 1)) ELSE s

Strip(s) == RStrip(LStrip(s))

Kinds ==
    <<"upload_options", "account", "profile", "tweet", "community_tweet",
      "note_tweet", "like", "follower", "following">>

KindSet == {Kinds[i] : i \in 1..Len(Kinds)}

Rank(k) == CHOOSE i \in 1..Len(Kinds) : Kinds[i] = k

CountKinds == KindSet \cup {"tweet_hashtag", "tweet_media"}

OwnerScopedKinds == KindSet \ {"account"}

BatchedKinds ==
    {"tweet", "community_tweet", "note_tweet", "like", "follower", "following"}

\* ------------------------------------------------------------ timestamps
\* Time is counted in ticks; a day has a first and a last tick (time.min
\* and time.max of the day).
TicksPerDay == 2

NullTime == -1

NoDay == -1

\* The "created_at" value of a record as the document gives it: absent, an
\* ISO string with a UTC offset (local time and offset in ticks), an ISO
\* string without offset, the verbose form of the export
\* ("Thu Jan 22 21:04:29 +0000 2026"), or an empty string.
RawNone == [form |-> "none", local |-> 0, off |-> 0]

RawIso(local, off) == [form |-> "iso", local |-> local, off |-> off]

RawNaive(local) == [form |-> "naive", local |-> local, off |-> 0]

RawVerbose(local) == [form |-> "verbose", local |-> local, off |-> 0]

\* _parse_archive_datetime: datetime.fromisoformat, then UTC; None for
\* what fromisoformat does not take.
ParseArchiveDatetime(v) ==
    IF v.form = "iso" THEN v.local - v.off
    ELSE IF v.form = "naive" THEN v.local
    ELSE NullTime

\* _date_to_utc_datetime
DateToUtcDatetime(day, end) ==
    IF day = NoDay THEN NullTime
    ELSE IF end THEN day * TicksPerDay + (TicksPerDay - 1)
    ELSE day * TicksPerDay

\* ------------------------------------------------------------ field values
\* A field value of a record as JSON gives it: null, an integer, a string
\* (a tuple of characters) or an array of values.
JNull == [t |-> "null"]

JInt(n) == [t |-> "int", n |-> n]

JStr(chars) == [t |-> "str", s |-> chars]

JList(items) == [t |-> "list", items |-> items]

\* None, and an integer result.
None == <<>>

Some(n) == <<n>>

DigitValue(c) == IF c = "1" THEN 1 ELSE 2

IsDigit(c) == c \in {"1", "2"}

RECURSIVE DecimalValue(_)
DecimalValue(chars) ==
    IF chars = <<>> THEN 0
    ELSE DecimalValue(SubSeq(chars, 1, Len(chars) - 1)) * 10
            + DigitValue(chars[Len(chars)])

\* int(value) for a string: white space around the digits is allowed;
\* anything else raises ValueError, which _safe_int turns into None.
IntOfString(chars) ==
    LET digits == Strip(chars)
    IN  IF digits # <<>> /\ \A i \in 1..Len(digits) : IsDigit(digits[i])
        THEN Some(DecimalValue(digits))
        ELSE None

\* _safe_int
SafeInt(value) ==
    IF value.t = "null" THEN None
    ELSE IF value.t = "int" THEN Some(value.n)
    ELSE IF value.t = "str" /\ Strip(value.s) # <<>> THEN IntOfString(value.s)
    ELSE None

\* list(value or []): a value that is false in Python gives the empty list,
\* a string the list of its characters, an integer other than 0 raises
\* TypeError.
ListOf(value) ==
    IF value.t = "null" THEN [raised |-> FALSE, items |-> <<>>]
    ELSE IF value.t = "int"
    THEN [raised |-> value.n # 0, items |-> <<>>]
    ELSE IF value.t = "str"
    THEN [raised |-> FALSE, items |-> [i \in 1..Len(value.s) |-> JStr(<<value.s[i]>>)]]
    ELSE [raised |-> FALSE, items |-> value.items]

\* _indices_to_bounds, after list(indices)
IndicesToBounds(items) ==
    IF Len(items) # 2 THEN <<None, None>>
    ELSE <<SafeInt(items[1]), SafeInt(items[2])>>

\* The strings, the array elements and the arrays the coercions are given.
Strings == {<<>>, <<" ">>, <<"1">>, <<"1", "2">>, <<" ", "2">>, <<"2", " ">>,
            <<"1", " ", "2">>, <<"a">>, <<"1", "a">>}

Scalars == {JNull, JInt(0), JInt(7)} \cup {JStr(chars) : chars \in Strings}

Elements == {JNull, JInt(7), JStr(<<"2">>), JStr(<<"a">>), JStr(<<>>)}

RECURSIVE ArraysOfLen(_)
ArraysOfLen(n) ==
    IF n = 0 THEN {<<>>}
    ELSE {Append(items, e) : items \in ArraysOfLen(n - 1), e \in Elements}

Arrays == UNION {{JList(items) : items \in ArraysOfLen(n)} : n \in 0..MaxIndices}

RawValues == {RawNone, RawIso(2, 1), RawNaive(2), RawVerbose(2)}

NoCoercion == [fn |-> "none", arg |-> JNull, raised |-> FALSE, out |-> None]

\* ------------------------------------------------------------- documents
\* One record of the document.  form = "null_item" is an entry that is not
\* a mapping (item.get raises); form = "bad_indices" is a post whose hashtag
\* carries an "indices" value that cannot be listed (list(5) raises).
Item(k, acct, id, text, tags, form) ==
    [kind |-> k, account_id |-> acct, id |-> id, text |-> text, tags |-> tags,
     form |-> form, media |-> <<>>, created_at |-> RawNone]

Acct(acct, name) == Item("account", acct, "", name, <<>>, "ok")
Post(k, id, text, tags) == Item(k, <<>>, id, text, tags, "ok")
Rec(k, id, text) == Item(k, <<>>, id, text, <<>>, "ok")

\* One entry of a post's "media" list: under "entities" or under
\* "extended_entities", with its id and its type.
Media(entity_type, media_id, media_type) ==
    [entity_type |-> entity_type, media_id |-> media_id, media_type |-> media_type]

PostAt(k, id, text, raw) == [Post(k, id, text, <<>>) EXCEPT !.created_at = raw]

PostM(k, id, text, tags, media) == [Post(k, id, text, tags) EXCEPT !.media = media]

A == <<"a">>
B == <<"b">>

\* The documents are drawn from families of entries, one family per run;
\* each family holds the entries that one group of cases needs.
Universes ==
    {"owners", "texts", "kinds", "likes", "follows", "singles", "malformed", "skips",
     "zip", "embeds", "search", "padded"}

\* The families whose documents are the selections from one listing of
\* entries, in the listing's order; a family without a listing draws its
\* documents freely from its entries.
Listing(u) ==
    CASE u = "zip" ->
           <<Acct(A, "alice"), Acct(B, "bob"),
             Post("tweet", "t1", "x", <<>>), Post("tweet", "t1", "y", <<>>)>>
      [] u = "embeds" ->
           <<Acct(A, "alice"),
             Post("tweet", "t1", "x", <<>>), Post("tweet", "t1", "", <<>>),
             Post("tweet", "t2", "y", <<>>)>>
      [] u = "search" ->
           <<Acct(A, "alice"),
             PostAt("tweet", "t1", "x", RawIso(2 * TicksPerDay, 1)),
             PostAt("tweet", "t2", "y", RawNaive(2 * TicksPerDay)),
             PostAt("tweet", "t3", "x", RawVerbose(1 * TicksPerDay))>>
      [] u = "padded" ->
           <<Acct(<<" ", "a">>, "alice"), Acct(A, "alice"),
             Post("tweet", "t1", "x", <<>>), Rec("like", "n1", "p")>>
      [] OTHER -> <<>>

Items(u) ==
    CASE u = "owners" ->
           {Acct(A, "alice"), Acct(B, "bob"),
            Post("tweet", "t1", "x", <<>>), Post("tweet", "t1", "y", <<>>),
            Post("community_tweet", "t1", "x", <<>>)}
      [] u = "texts" ->
           {Acct(A, "alice"),
            Post("tweet", "t1", "x", <<>>), Post("tweet", "t1", "", <<>>),
            Post("tweet", "t2", "y", <<>>), Post("tweet", "t2", "", <<>>)}
      [] u = "kinds" ->
           {Acct(A, "alice"),
            PostM("tweet", "t1", "x", <<"h">>, <<Media("entities", "m1", "photo")>>),
            PostM("tweet", "t1", "y", <<"h", "h">>,
                  <<Media("entities", "m1", "video"), Media("extended", "m1", "photo")>>),
            PostM("community_tweet", "t1", "y", <<"h">>,
                  <<Media("entities", "m2", "photo")>>),
            Post("community_tweet", "t2", "x", <<"g">>)}
      [] u = "likes" ->
           {Acct(A, "alice"), Acct(B, "bob"),
            Rec("like", "n1", "p"), Rec("like", "n1", "q")}
      [] u = "follows" ->
           {Acct(A, "alice"), Acct(B, "bob"),
            Rec("follower", "n1", "p"), Rec("follower", "n1", "q"),
            Rec("following", "n1", "p")}
      [] u = "singles" ->
           {Rec("upload_options", "", "2023"), Acct(A, "alice"), Acct(B, "bob"),
            Rec("profile", "", "bio"),
            Rec("note_tweet", "n1", "p"), Rec("note_tweet", "n1", "q")}
      [] u = "malformed" ->
           {Acct(A, "alice"), Acct(<<" ">>, "blank"),
            Post("tweet", "t1", "x", <<>>),
            Item("tweet", <<>>, "t2", "x", <<>>, "null_item"),
            Item("tweet", <<>>, "t2", "y", <<"h">>, "bad_indices")}
      [] Listing(u) # <<>> ->
           {Listing(u)[i] : i \in 1..Len(Listing(u))}
      [] OTHER ->
           {Acct(A, "alice"), Acct(<<>>, "ghost"),
            Post("tweet", "", "x", <<>>), Rec("like", "", "p"),
            Rec("following", "n1", "p"), Rec("profile", "", "bio")}

\* A document is its records in the order import_archive_data walks them:
\* kind by kind in the fixed order of Kinds, each kind's list in list order.
\* "upload-options" is a mapping, so at most one.
InOrder(d) ==
    /\ \A i \in 1..(Len(d) - 1) : Rank(d[i].kind) <= Rank(d[i + 1].kind)
    /\ Cardinality({i \in 1..Len(d) : d[i].kind = "upload_options"}) <= 1

RECURSIVE DocsOfLen(_, _)
DocsOfLen(u, n) ==
    IF n = 0 THEN {<<>>}
    ELSE {Append(d, it) : d \in DocsOfLen(u, n - 1), it \in Items(u)}

\* The entries of a listing at the places I, in the listing's order.
Selection(list, I) ==
    [i \in 1..Cardinality(I) |->
        list[CHOOSE k \in I : Cardinality({j \in I : j <= k}) = i]]

DocsOf(u) ==
    IF Listing(u) # <<>>
    THEN {Selection(Listing(u), I) :
             I \in {J \in SUBSET (1..Len(Listing(u))) : Cardinality(J) <= MaxRecs}}
    ELSE UNION {{d \in DocsOfLen(u, n) : InOrder(d)} : n \in 0..MaxRecs}

AllDocs == [u \in Universes |-> DocsOf(u)]

Docs(u) == AllDocs[u]

\* ------------------------------------------------------- the zip container
\* The form in which a run of a family hands its documents to the importer:
\* a parsed JSON document, or a zip container that is normalized first.
Sources(u) == IF u = "zip" THEN {"zip"} ELSE {"json"}

\* What the caller of a family's runs does besides importing.
Ops(u) ==
    IF u = "embeds" THEN {"embed"}
    ELSE IF u = "search" THEN {"embed", "search"}
    ELSE {}

KindList(d, k) == SelectSeq(d, LAMBDA it : it.kind = k)

\* A fragment file: the script prefix "window.YTD.<kind>.part<n> =" and
\* after it the JSON array of the records.
Wrap(k, part, recs) == <<"window.YTD", k, part, "=">> \o recs

RECURSIVE StripPrefix(_)
StripPrefix(tokens) ==
    IF tokens = <<>> THEN <<>>
    ELSE IF Head(tokens) = "=" THEN Tail(tokens)
    ELSE StripPrefix(Tail(tokens))

\* The records of kind k before and after position cut of document d.
Before(d, k, cut) == KindList(SubSeq(d, 1, cut), k)

After(d, k, cut) == KindList(SubSeq(d, cut + 1, Len(d)), k)

TwoParts(d, k, cut) == Before(d, k, cut) # <<>> /\ After(d, k, cut) # <<>>

\* The container that holds document d with the list that position cut
\* falls into split into two fragment files; a kind without records has no
\* manifest entry and no file.
Pack(d, cut) ==
    LET present == {k \in KindSet : KindList(d, k) # <<>>}
        names   == {<<k, "part0">> : k \in present}
                   \cup {<<k, "part1">> : k \in {x \in present : TwoParts(d, x, cut)}}
    IN  [manifest |->
            [k \in present |->
                IF TwoParts(d, k, cut) THEN <<<<k, "part0">>, <<k, "part1">>>>
                ELSE <<<<k, "part0">>>>],
         files |->
            [f \in names |->
                IF ~TwoParts(d, f[1], cut) THEN Wrap(f[1], f[2], KindList(d, f[1]))
                ELSE IF f[2] = "part0" THEN Wrap(f[1], f[2], Before(d, f[1], cut))
                ELSE Wrap(f[1], f[2], After(d, f[1], cut))]]

RECURSIVE ReadFiles(_, _)
ReadFiles(z, names) ==
    IF names = <<>> THEN <<>>
    ELSE StripPrefix(z.files[Head(names)]) \o ReadFiles(z, Tail(names))

RECURSIVE ReadKinds(_, _, _)
ReadKinds(z, i, firstOnly) ==
    IF i > Len(Kinds) THEN <<>>
    ELSE (IF Kinds[i] \notin DOMAIN z.manifest THEN <<>>
          ELSE IF firstOnly THEN ReadFiles(z, <<z.manifest[Kinds[i]][1]>>)
          ELSE ReadFiles(z, z.manifest[Kinds[i]]))
         \o ReadKinds(z, i + 1, firstOnly)

LoadTwitterZipFirstPart(z) == ReadKinds(z, 1, TRUE)

\* load_twitter_zip: one list per record kind, the fragments of a kind
\* concatenated in manifest file order, a kind without manifest entry empty.
LoadTwitterZip(z) == ReadKinds(z, 1, FALSE)

NoArchive == [given |-> FALSE, json |-> <<>>, zip |-> [manifest |-> EmptyFn, files |-> EmptyFn]]

\* ----------------------------------------------------------------- store
EmptyStore ==
    [account |-> EmptyFn, profile |-> EmptyFn, tweet |-> EmptyFn,
     note_tweet |-> EmptyFn, upload_options |-> EmptyBag, like |-> EmptyBag,
     follower |-> EmptyBag, following |-> EmptyBag, tweet_hashtag |-> EmptyBag,
     tweet_media |-> EmptyBag, tweet_fts |-> EmptyBag, tweet_embedding |-> EmptyBag]

ZeroCounts == [k \in CountKinds |-> 0]

Put(f, k, v) == [x \in DOMAIN f \cup {k} |-> IF x = k THEN v ELSE f[x]]

BagAdd(b, r) == b (+) SetToBag({r})

\* The rows S of bag b, with their multiplicities.
Restrict(b, S) == [r \in S |-> b[r]]

FtsDeleteNone(fts, tweet_id) == fts

\* DELETE FROM tweet_fts WHERE tweet_id = :tweet_id
FtsDelete(fts, tweet_id) == Restrict(fts, {r \in DOMAIN fts : r.tweet_id # tweet_id})

BagUpdateOneDrops(b, old, new) ==
    IF b[old] = 1 THEN [r \in DOMAIN b \ {old} |-> b[r]]
    ELSE [b EXCEPT ![old] = @ - 1]

\* One matching row is rewritten in place (select ... limit 1, then assign).
BagUpdateOne(b, old, new) ==
    BagAdd(IF b[old] = 1 THEN [r \in DOMAIN b \ {old} |-> b[r]]
           ELSE [b EXCEPT ![old] = @ - 1], new)

\* ------------------------------------------------------- owner resolution
NoOwner == <<>>

AccountList(d) == SelectSeq(d, LAMBDA it : it.kind = "account")

GetOwnerAccountIdNoStrip(d) ==
    IF AccountList(d) = <<>> THEN NoOwner
    ELSE IF AccountList(d)[1].form = "null_item" THEN NoOwner
    ELSE AccountList(d)[1].account_id

\* None (NoOwner) or the stripped accountId of the first account entry.
GetOwnerAccountId(d) ==
    IF AccountList(d) = <<>> THEN NoOwner
    ELSE IF AccountList(d)[1].form = "null_item" THEN NoOwner
    ELSE Strip(AccountList(d)[1].account_id)

HasOwnerScopedData(d) == \E i \in 1..Len(d) : d[i].kind \in OwnerScopedKinds

\* ------------------------------------------------------- search-index sync
EnsureTweetFts(exists) == TRUE

SyncTweetFtsNoDelete(db, tweet_id, account_id, full_text) ==
    [db EXCEPT !.tweet_fts =
        BagAdd(@, [tweet_id |-> tweet_id, account_id |-> account_id,
                   full_text |-> full_text])]

SyncTweetFtsSkipEmpty(db, tweet_id, account_id, full_text) ==
    LET deleted == FtsDelete(db.tweet_fts, tweet_id)
    IN  [db EXCEPT !.tweet_fts =
            IF full_text = "" THEN deleted
            ELSE BagAdd(deleted, [tweet_id |-> tweet_id, account_id |-> account_id,
                                  full_text |-> full_text])]

SyncTweetFts(db, tweet_id, account_id, full_text) ==
    LET deleted == FtsDelete(db.tweet_fts, tweet_id)
    IN  [db EXCEPT !.tweet_fts =
            BagAdd(deleted, [tweet_id |-> tweet_id, account_id |-> account_id,
                             full_text |-> full_text])]

\* ------------------------------------------------------------ the upserts
\* Every upsert takes and returns s = [db, counts, raised].
Bump(s, k) == [s EXCEPT !.counts[k] = @ + 1]

CommunityId == "c9"

UpsertUploadOptions(s, owner, it) ==
    LET mine == {r \in DOMAIN s.db.upload_options : r.account_id = owner}
        new  == [account_id |-> owner, start_date |-> it.text]
    IN  IF owner = NoOwner THEN s
        ELSE IF mine = {}
        THEN Bump([s EXCEPT !.db.upload_options = BagAdd(@, new)], "upload_options")
        ELSE [s EXCEPT !.db.upload_options =
                 BagUpdateOne(@, CHOOSE r \in mine : TRUE, new)]

UpsertAccountCountsUpdate(s, it) ==
    IF it.account_id = <<>> THEN s
    ELSE [s EXCEPT !.db.account = Put(@, it.account_id, [username |-> it.text]),
                   !.counts["account"] = @ + 1]

UpsertAccount(s, it) ==
    IF it.account_id = <<>> THEN s
    ELSE IF it.account_id \notin DOMAIN s.db.account
    THEN Bump([s EXCEPT !.db.account = Put(@, it.account_id, [username |-> it.text])],
              "account")
    ELSE [s EXCEPT !.db.account[it.account_id] = [username |-> it.text]]

UpsertProfile(s, owner, it) ==
    IF owner = NoOwner THEN s
    ELSE IF owner \notin DOMAIN s.db.profile
    THEN Bump([s EXCEPT !.db.profile = Put(@, owner, [bio |-> it.text])], "profile")
    ELSE [s EXCEPT !.db.profile[owner] = [bio |-> it.text]]

RECURSIVE AddHashtagsNoCheck(_, _, _)
AddHashtagsNoCheck(s, tweet_id, tags) ==
    IF tags = <<>> THEN s
    ELSE LET row == [tweet_id |-> tweet_id, text |-> Head(tags)]
             s1  == [s EXCEPT !.db.tweet_hashtag = BagAdd(@, row),
                              !.counts["tweet_hashtag"] = @ + 1]
         IN  AddHashtagsNoCheck(s1, tweet_id, Tail(tags))

RECURSIVE AddHashtags(_, _, _)
AddHashtags(s, tweet_id, tags) ==
    IF tags = <<>> THEN s
    ELSE LET row == [tweet_id |-> tweet_id, text |-> Head(tags)]
             s1  == IF BagIn(row, s.db.tweet_hashtag) THEN s
                    ELSE Bump([s EXCEPT !.db.tweet_hashtag = BagAdd(@, row)],
                              "tweet_hashtag")
         IN  AddHashtags(s1, tweet_id, Tail(tags))

\* The rows of tweet_media that _exists finds for one media entry: the
\* filters are the tweet id, the entity type and the media id, not the type.
SameMedia(db, tweet_id, m) ==
    {r \in DOMAIN db.tweet_media :
        /\ r.tweet_id = tweet_id
        /\ r.entity_type = m.entity_type
        /\ r.media_id = m.media_id}

MediaRow(tweet_id, m) ==
    [tweet_id |-> tweet_id, entity_type |-> m.entity_type, media_id |-> m.media_id,
     media_type |-> m.media_type]

RECURSIVE AddMediaAllFields(_, _, _)
AddMediaAllFields(s, tweet_id, media) ==
    IF media = <<>> THEN s
    ELSE LET row == MediaRow(tweet_id, Head(media))
             s1  == IF BagIn(row, s.db.tweet_media) THEN s
                    ELSE Bump([s EXCEPT !.db.tweet_media = BagAdd(@, row)],
                              "tweet_media")
         IN  AddMediaAllFields(s1, tweet_id, Tail(media))

\* The two media loops of the "tweets" loop over a list of media entries.
RECURSIVE AddMedia(_, _, _)
AddMedia(s, tweet_id, media) ==
    IF media = <<>> THEN s
    ELSE LET s1 == IF SameMedia(s.db, tweet_id, Head(media)) # {} THEN s
                   ELSE Bump([s EXCEPT !.db.tweet_media =
                                 BagAdd(@, MediaRow(tweet_id, Head(media)))],
                             "tweet_media")
         IN  AddMedia(s1, tweet_id, Tail(media))

\* entities.media first, extended_entities.media after it; the
\* "community-tweet" loop has no media loop.
MediaInLoopOrder(it, kind) ==
    IF kind # "tweet" THEN <<>>
    ELSE SelectSeq(it.media, LAMBDA m : m.entity_type = "entities")
         \o SelectSeq(it.media, LAMBDA m : m.entity_type = "extended")

\* The body of the "tweets" loop (kind = "tweet") and of the
\* "community-tweet" loop (kind = "community_tweet") for one entry.
UpsertPost(s, owner, it, kind) ==
    LET fresh == [account_id |-> owner, full_text |-> it.text,
                  tweet_kind |-> IF kind = "tweet" THEN "tweet" ELSE "community",
                  community_id |-> IF kind = "tweet" THEN NONE ELSE CommunityId,
                  created_at |-> ParseArchiveDatetime(it.created_at)]
        s1 == IF it.id \notin DOMAIN s.db.tweet
              THEN Bump([s EXCEPT !.db.tweet = Put(@, it.id, fresh)], kind)
              ELSE [s EXCEPT !.db.tweet[it.id] =
                      [@ EXCEPT !.account_id = owner,
                                !.full_text = it.text,
                                !.tweet_kind = fresh.tweet_kind,
                                !.created_at = fresh.created_at,
                                !.community_id =
                                    IF kind = "tweet" THEN @ ELSE CommunityId]]
        s2 == [s1 EXCEPT !.db = SyncTweetFts(@, it.id, owner, it.text)]
    IN  IF it.form = "bad_indices" /\ it.tags # <<>>
        THEN [s2 EXCEPT !.raised = TRUE]
        ELSE AddMedia(AddHashtags(s2, it.id, it.tags), it.id, MediaInLoopOrder(it, kind))

UpsertNote(s, owner, it) ==
    IF it.id \notin DOMAIN s.db.note_tweet
    THEN Bump([s EXCEPT !.db.note_tweet =
                  Put(@, it.id, [account_id |-> owner, text |-> it.text])],
              "note_tweet")
    ELSE [s EXCEPT !.db.note_tweet[it.id] = [account_id |-> owner, text |-> it.text]]

UpsertPairAnyOwner(s, owner, it, kind) ==
    LET found == {r \in DOMAIN s.db[kind] : r.other_id = it.id}
        new   == [account_id |-> owner, other_id |-> it.id, value |-> it.text]
    IN  IF found = {}
        THEN [s EXCEPT !.db[kind] = BagAdd(@, new), !.counts[kind] = @ + 1]
        ELSE [s EXCEPT !.db[kind] = BagUpdateOne(@, CHOOSE r \in found : TRUE, new)]

\* Like, Follower and Following: looked up by (account_id, other id).
UpsertPair(s, owner, it, kind) ==
    LET found == {r \in DOMAIN s.db[kind] : r.account_id = owner /\ r.other_id = it.id}
        new   == [account_id |-> owner, other_id |-> it.id, value |-> it.text]
    IN  IF found = {}
        THEN Bump([s EXCEPT !.db[kind] = BagAdd(@, new)], kind)
        ELSE [s EXCEPT !.db[kind] = BagUpdateOne(@, CHOOSE r \in found : TRUE, new)]

\* Whether the loop body leaves the entry by `continue` (or, for
\* upload-options, skips it) and so writes nothing for it.
Skipped(owner, it) ==
    IF it.kind = "account" THEN it.account_id = <<>>
    ELSE IF it.kind \in {"upload_options", "profile"} THEN owner = NoOwner
    ELSE it.id = "" \/ owner = NoOwner

\* Whether the entry reaches the end of its loop body, where the loop's
\* counter is incremented and commit_if_needed is called.
Counted(owner, it) == it.kind \in BatchedKinds /\ ~Skipped(owner, it)

\* One entry of the document applied to s = [db, counts, raised].
ApplyRecord(s, owner, it) ==
    IF it.form = "null_item" THEN [s EXCEPT !.raised = TRUE]
    ELSE IF it.kind = "upload_options" THEN UpsertUploadOptions(s, owner, it)
    ELSE IF it.kind = "account" THEN UpsertAccount(s, it)
    ELSE IF it.kind = "profile" THEN UpsertProfile(s, owner, it)
    ELSE IF it.id = "" \/ owner = NoOwner THEN s
    ELSE IF it.kind \in {"tweet", "community_tweet"} THEN UpsertPost(s, owner, it, it.kind)
    ELSE IF it.kind = "note_tweet" THEN UpsertNote(s, owner, it)
    ELSE UpsertPair(s, owner, it, it.kind)

CommitIfNeededLate(n, size) == n % (size + 1) = 0

CommitIfNeeded(n, size) == n % size = 0

\* Leaving the session's with-block on an exception closes the session,
\* which rolls the open transaction back.
RollbackKeeps(db_committed, db_session) == db_session

Rollback(db_committed, db_session) == db_committed

\* ------------------------------------------------------------- embeddings
\* The provider's vector for a text, as a point on a line.
Embedding(text) ==
    CASE text = "x" -> 0
      [] text = "y" -> 2
      [] OTHER -> 5

EnsureVecTable(exists) == TRUE

ClearVecTableKeeps(db) == db

\* DELETE FROM tweet_embedding
ClearVecTable(db) == [db EXCEPT !.tweet_embedding = EmptyBag]

VecRow(db, id) ==
    [tweet_id |-> id, account_id |-> db.tweet[id].account_id,
     embedding |-> Embedding(db.tweet[id].full_text)]

\* The INSERT loop of one batch.
RECURSIVE InsertVectors(_, _)
InsertVectors(db, ids) ==
    IF ids = <<>> THEN db
    ELSE InsertVectors([db EXCEPT !.tweet_embedding = BagAdd(@, VecRow(db, Head(ids)))],
                       Tail(ids))

HasVector(db, id) == \E r \in DOMAIN db.tweet_embedding : r.tweet_id = id

SelectRowsPending(db) ==
    {id \in DOMAIN db.tweet : db.tweet[id].full_text # "" /\ ~HasVector(db, id)}

\* select(Tweet.tweet_id, Tweet.account_id, Tweet.full_text)
\*     .where(Tweet.full_text != "")
SelectRows(db) == {id \in DOMAIN db.tweet : db.tweet[id].full_text # ""}

\* The orders in which the select can return the rows (it has no ORDER BY).
Orderings(S) ==
    {seq \in [1..Cardinality(S) -> S] :
        \A i \in 1..Cardinality(S) : \A j \in 1..Cardinality(S) :
            seq[i] = seq[j] => i = j}

\* _chunked: the batch that starts at position pos.
Chunk(rows, pos, size) ==
    SubSeq(rows, pos, IF pos + size - 1 < Len(rows) THEN pos + size - 1 ELSE Len(rows))

NoEmb == [rows |-> <<>>, pos |-> 1, inserted |-> 0, first_batch |-> TRUE, sent |-> <<>>]

\* ------------------------------------------------------------------ search
\* Queries and author handles are tuples of characters and words: " " is
\* white space, "@" the at sign, anything else a word.
Queries == {<<>>, <<" ", " ">>, <<"x">>, <<" ", "y">>}

Authors == {<<>>, <<"@", "alice">>, <<"@", "@", "alice">>, <<"carol">>}

Sinces == {NoDay, 2}

Untils == {NoDay, 1}

Limits == {1, 2}

BlankNoStrip(query) == query = <<>>

\* not query.strip()
Blank(query) == Strip(query) = <<>>

\* _normalize_author of search.py: strip, then drop one leading "@".
NormalizeAuthor(author) ==
    LET stripped == Strip(author)
    IN  IF stripped # <<>> /\ Head(stripped) = "@" THEN Tail(stripped) ELSE stripped

ResolveAuthorAccountIdAny(db, author) == DOMAIN db.account

\* The account ids whose username is the normalized handle; the select
\* takes the first of them.
ResolveAuthorAccountId(db, author) ==
    {a \in DOMAIN db.account : <<db.account[a].username>> = NormalizeAuthor(author)}

RECURSIVE LStripAt(_)
\* str.lstrip("@")
LStripAt(s) == IF s # <<>> /\ Head(s) = "@" THEN LStripAt(Tail(s)) ELSE s

\* _resolve_author_account_id of embeddings.py: strip, then drop every
\* leading "@".
EmbeddingsResolveAuthorAccountId(db, author) ==
    {a \in DOMAIN db.account : <<db.account[a].username>> = LStripAt(Strip(author))}

\* tweet_fts MATCH :query, for texts of one word: every word of the query
\* is the word of the text.
Match(query, text) == \A i \in 1..Len(query) : query[i] # " " => query[i] = text

NotBeforeStrict(t, bound) == bound = NullTime \/ (t # NullTime /\ t > bound)

\* SQL comparison with a column that may be NULL.
NotBefore(t, bound) == bound = NullTime \/ (t # NullTime /\ t >= bound)

NotAfter(t, bound) == bound = NullTime \/ (t # NullTime /\ t <= bound)

\* JOIN tweet, JOIN account and the WHERE clause after the index lookup,
\* for the post ids the lookup gives.
JoinAndFilter(db, ids, account_id, since, until) ==
    {id \in ids \cap DOMAIN db.tweet :
        /\ db.tweet[id].account_id \in DOMAIN db.account
        /\ (account_id = NoOwner \/ db.tweet[id].account_id = account_id)
        /\ NotBefore(db.tweet[id].created_at, DateToUtcDatetime(since, FALSE))
        /\ NotAfter(db.tweet[id].created_at, DateToUtcDatetime(until, TRUE))}

\* ORDER BY created_at IS NULL, created_at DESC: a may stand before b.
RecencyOrder(db, a, b) ==
    \/ db.tweet[b].created_at = NullTime
    \/ /\ db.tweet[a].created_at # NullTime
       /\ db.tweet[a].created_at >= db.tweet[b].created_at

Sorted(db, S) ==
    {seq \in Orderings(S) :
        \A i \in 1..Len(seq) : \A j \in 1..Len(seq) :
            i < j => RecencyOrder(db, seq[i], seq[j])}

\* LIMIT :limit
Take(seq, limit) == SubSeq(seq, 1, IF Len(seq) < limit THEN Len(seq) ELSE limit)

\* The rows of the keyword statement of search_tweets: the bm25 rank of
\* one-word texts is the same for all, the order is the recency order.
KeywordRows(db, query, account_id, since, until) ==
    JoinAndFilter(db,
                  {r.tweet_id : r \in {x \in DOMAIN db.tweet_fts : Match(query, x.full_text)}},
                  account_id, since, until)

\* The text of a query as the provider gets it.
QueryText(query) == IF Len(query) = 1 THEN query[1] ELSE "?"

Distance(u, v) == IF u >= v THEN u - v ELSE v - u

\* The candidate sets "embedding MATCH :query_embedding AND k = :k" can
\* give: k rows (all, when there are fewer) of the owner, none of them
\* farther from the query vector than a row left out.
Candidates(db, qvec, k, account_id) ==
    LET rows == {r \in DOMAIN db.tweet_embedding :
                    account_id = NoOwner \/ r.account_id = account_id}
    IN  {C \in SUBSET rows :
            /\ Cardinality(C) = (IF Cardinality(rows) < k THEN Cardinality(rows) ELSE k)
            /\ \A r \in C : \A o \in rows \ C :
                  Distance(r.embedding, qvec) <= Distance(o.embedding, qvec)}

EmbeddingsAvailableOnError(db, exists) == ~exists \/ db.tweet_embedding # EmptyBag

\* embeddings_available
EmbeddingsAvailable(db, exists) == exists /\ db.tweet_embedding # EmptyBag

NoSearch ==
    [kind |-> "none", query |-> <<>>, author |-> <<>>, since |-> NoDay, until |-> NoDay,
     limit |-> 0, key |-> TRUE, outcome |-> "none", hits |-> <<>>, statements |-> <<>>]

VARIABLES universe, committed, working, fts_exists, startFts, pc, doc, batch_size, pos,
          counter, counts, result, startStore, lastCommitPos, pendingKinds,
          repeat, nImports, archive, vec_exists, emb, nEmbeds, srch, coercion

vars == <<universe, committed, working, fts_exists, startFts, pc, doc, batch_size, pos,
          counter, counts, result, startStore, lastCommitPos, pendingKinds,
          repeat, nImports, archive, vec_exists, emb, nEmbeds, srch, coercion>>

Owner == GetOwnerAccountId(doc)

ZeroKinds == [k \in KindSet |-> 0]

Init ==
    /\ universe \in Universes
    /\ committed = EmptyStore
    /\ working = EmptyStore
    /\ fts_exists = FALSE
    /\ startFts = FALSE
    /\ pc = "ready"
    /\ doc = <<>>
    /\ batch_size = 1
    /\ pos = 1
    /\ counter = ZeroKinds
    /\ counts = ZeroCounts
    /\ result = "none"
    /\ startStore = EmptyStore
    /\ lastCommitPos = 0
    /\ pendingKinds = ZeroKinds
    /\ repeat = FALSE
    /\ nImports = 0
    /\ archive = NoArchive
    /\ vec_exists = FALSE
    /\ emb = NoEmb
    /\ nEmbeds = 0
    /\ srch = NoSearch
    /\ coercion = NoCoercion

\* import_archive(...) up to the first loop of import_archive_data: a new
\* session on the store, the owner check, ensure_tweet_fts.
BeginCall(d, n, again) ==
    /\ nImports < MaxImports
    /\ nImports' = nImports + 1
    /\ doc' = d
    /\ batch_size' = n
    /\ repeat' = again
    /\ startStore' = committed
    /\ startFts' = fts_exists
    /\ working' = committed
    /\ counts' = ZeroCounts
    /\ counter' = ZeroKinds
    /\ pendingKinds' = ZeroKinds
    /\ lastCommitPos' = 0
    /\ pos' = 1
    /\ IF GetOwnerAccountId(d) = NoOwner /\ HasOwnerScopedData(d)
       THEN /\ result' = "MissingOwner"
            /\ pc' = "done"
            /\ fts_exists' = fts_exists
       ELSE /\ result' = "running"
            /\ pc' = "run"
            /\ fts_exists' = EnsureTweetFts(fts_exists)
    /\ UNCHANGED <<coercion, universe, committed, vec_exists, emb, nEmbeds, srch>>

\* A call of import_archive with document d and batch size n.
StartImport(d, n) ==
    /\ pc = "ready"
    /\ "json" \in Sources(universe)
    /\ archive' = NoArchive
    /\ BeginCall(d, n, FALSE)

\* A call with the zip container that holds document d in fragment files:
\* load_twitter_zip, then import_archive_data on what it returns.
StartImportZip(d, cut, n) ==
    /\ pc = "ready"
    /\ "zip" \in Sources(universe)
    /\ archive' = [given |-> TRUE, json |-> d, zip |-> Pack(d, cut)]
    /\ BeginCall(LoadTwitterZip(Pack(d, cut)), n, FALSE)

\* The caller imports the document of the call that just succeeded once
\* more (any batch size).
Reimport(n) ==
    /\ pc = "done"
    /\ result = "ok"
    /\ archive' = archive
    /\ BeginCall(IF archive.given THEN LoadTwitterZip(archive.zip) ELSE doc, n, TRUE)

\* The caller is through with the outcome of the call; what is kept of a
\* call for inspection (document, counts, outcome, the store it started
\* from) is dropped.
Return ==
    /\ pc \in {"done", "embedded", "searched"}
    /\ pc' = "ready"
    /\ doc' = <<>>
    /\ batch_size' = 1
    /\ pos' = 1
    /\ counter' = ZeroKinds
    /\ counts' = ZeroCounts
    /\ result' = "none"
    /\ startStore' = EmptyStore
    /\ startFts' = FALSE
    /\ lastCommitPos' = 0
    /\ pendingKinds' = ZeroKinds
    /\ repeat' = FALSE
    /\ archive' = NoArchive
    /\ emb' = NoEmb
    /\ srch' = NoSearch
    /\ UNCHANGED <<coercion, universe, committed, working, fts_exists, nImports, vec_exists,
                   nEmbeds>>

\* One pass through a loop body of import_archive_data, commit_if_needed
\* included; an exception leaves import_archive through the with-block.
ProcessRecord ==
    /\ pc = "run"
    /\ pos <= Len(doc)
    /\ LET it == doc[pos]
           r  == ApplyRecord([db |-> working, counts |-> counts, raised |-> FALSE],
                             Owner, it)
           n  == counter[it.kind] + 1
       IN  IF r.raised
           THEN /\ working' = Rollback(committed, r.db)
                /\ committed' = Rollback(committed, r.db)
                /\ result' = "error"
                /\ pc' = "done"
                /\ UNCHANGED <<counts, counter, pos, pendingKinds, lastCommitPos>>
           ELSE /\ working' = r.db
                /\ counts' = r.counts
                /\ pos' = pos + 1
                /\ IF Counted(Owner, it)
                   THEN /\ counter' = [counter EXCEPT ![it.kind] = n]
                        /\ IF CommitIfNeeded(n, batch_size)
                           THEN /\ committed' = r.db
                                /\ pendingKinds' = ZeroKinds
                                /\ lastCommitPos' = pos
                           ELSE /\ pendingKinds' = [pendingKinds EXCEPT ![it.kind] = @ + 1]
                                /\ UNCHANGED <<committed, lastCommitPos>>
                   ELSE /\ pendingKinds' =
                              IF Skipped(Owner, it) THEN pendingKinds
                              ELSE [pendingKinds EXCEPT ![it.kind] = @ + 1]
                        /\ UNCHANGED <<counter, committed, lastCommitPos>>
                /\ UNCHANGED <<result, pc>>
    /\ UNCHANGED <<coercion, universe, fts_exists, startFts, doc, batch_size, startStore,
                   repeat, nImports, archive, vec_exists, emb, nEmbeds, srch>>

FinishImportNoCommit ==
    /\ pc = "run"
    /\ pos > Len(doc)
    /\ pendingKinds' = ZeroKinds
    /\ lastCommitPos' = Len(doc)
    /\ result' = "ok"
    /\ pc' = "done"
    /\ UNCHANGED <<coercion, universe, committed, working, fts_exists, startFts, doc,
                   batch_size, pos, counter, counts, startStore, repeat, nImports,
                   archive, vec_exists, emb, nEmbeds, srch>>

\* The unconditional session.commit() and return counts.
FinishImport ==
    /\ pc = "run"
    /\ pos > Len(doc)
    /\ committed' = working
    /\ pendingKinds' = ZeroKinds
    /\ lastCommitPos' = Len(doc)
    /\ result' = "ok"
    /\ pc' = "done"
    /\ UNCHANGED <<coercion, universe, working, fts_exists, startFts, doc, batch_size, pos,
                   counter, counts, startStore, repeat, nImports, archive, vec_exists,
                   emb, nEmbeds, srch>>

\* embed_tweets_in_db up to the loop of embed_tweets: a new session,
\* resolve_embedding_config, the select, the early return when it is empty.
BeginEmbed(n, key, order, again) ==
    /\ nEmbeds < MaxEmbeds
    /\ nEmbeds' = nEmbeds + 1
    /\ order \in Orderings(SelectRows(committed))
    /\ batch_size' = n
    /\ repeat' = again
    /\ startStore' = committed
    /\ working' = committed
    /\ IF ~key
       THEN /\ result' = "ConfigError"
            /\ pc' = "embedded"
            /\ emb' = NoEmb
       ELSE IF order = <<>>
       THEN /\ result' = "ok"
            /\ pc' = "embedded"
            /\ emb' = NoEmb
       ELSE /\ result' = "running"
            /\ pc' = "embed"
            /\ emb' = [NoEmb EXCEPT !.rows = order]
    /\ UNCHANGED <<coercion, universe, committed, fts_exists, startFts, doc, pos, counter, counts,
                   lastCommitPos, pendingKinds, nImports, archive, vec_exists, srch>>

\* A call of embed_tweets_in_db with batch size n, with or without a
\* provider credential.
StartEmbed(n, key, order) ==
    /\ pc = "ready"
    /\ "embed" \in Ops(universe)
    /\ BeginEmbed(n, key, order, FALSE)

\* The caller invokes the embedding run again after a provider failure.
RetryEmbed(n, order) ==
    /\ pc = "embedded"
    /\ result = "ProviderError"
    /\ BeginEmbed(n, TRUE, order, TRUE)

\* One pass through the loop of embed_tweets.  The provider answers a batch
\* with one vector per text (ok) or raises; an exception leaves
\* embed_tweets_in_db through the with-block.
EmbedBatch(ok) ==
    /\ pc = "embed"
    /\ LET batch == Chunk(emb.rows, emb.pos, batch_size)
           last  == emb.pos + Len(batch) > Len(emb.rows)
           db1   == IF emb.first_batch THEN ClearVecTable(working) ELSE working
           db2   == InsertVectors(db1, batch)
       IN  IF ~ok
           THEN /\ working' = Rollback(committed, working)
                /\ committed' = Rollback(committed, working)
                /\ result' = "ProviderError"
                /\ pc' = "embedded"
                /\ emb' = [emb EXCEPT !.sent = @ \o batch]
                /\ UNCHANGED vec_exists
           ELSE /\ working' = db2
                /\ committed' = db2
                /\ vec_exists' = IF emb.first_batch THEN EnsureVecTable(vec_exists)
                                  ELSE vec_exists
                /\ emb' = [emb EXCEPT !.sent = @ \o batch,
                                       !.pos = @ + Len(batch),
                                       !.inserted = @ + Len(batch),
                                       !.first_batch = FALSE]
                /\ pc' = IF last THEN "embedded" ELSE "embed"
                /\ result' = IF last THEN "ok" ELSE result
    /\ UNCHANGED <<coercion, universe, fts_exists, startFts, doc, batch_size, pos, counter, counts,
                   startStore, lastCommitPos, pendingKinds, repeat, nImports, archive,
                   nEmbeds, srch>>

\* What a search call leaves alone: it writes no row and commits nothing.
SearchLeaves ==
    UNCHANGED <<coercion, universe, committed, working, doc, batch_size, pos, counter, counts,
                result, lastCommitPos, pendingKinds, repeat, nImports, archive, emb,
                nEmbeds, vec_exists>>

Asked(kind, query, author, since, until, limit, key) ==
    [NoSearch EXCEPT !.kind = kind, !.query = query, !.author = author,
                     !.since = since, !.until = until, !.limit = limit, !.key = key]

\* search_tweets_in_db: a new session, search_tweets.
KeywordSearch(query, author, since, until, limit) ==
    /\ pc = "ready"
    /\ "search" \in Ops(universe)
    /\ pc' = "searched"
    /\ startStore' = committed
    /\ startFts' = fts_exists
    /\ LET ask == Asked("keyword", query, author, since, until, limit, TRUE)
           ids == ResolveAuthorAccountId(committed, author)
       IN  IF Blank(query)
           THEN /\ srch' = [ask EXCEPT !.outcome = "ok"]
                /\ UNCHANGED fts_exists
           ELSE /\ fts_exists' = EnsureTweetFts(fts_exists)
                /\ IF author # <<>> /\ ids = {}
                   THEN srch' = [ask EXCEPT !.outcome = "ok",
                                            !.statements = <<"ensure_tweet_fts">>]
                   ELSE \E a \in (IF author = <<>> THEN {NoOwner} ELSE ids) :
                          \E order \in Sorted(committed,
                                  KeywordRows(committed, query, a, since, until)) :
                              srch' = [ask EXCEPT
                                         !.outcome = "ok",
                                         !.hits = Take(order, limit),
                                         !.statements = <<"ensure_tweet_fts", "match">>]
    /\ SearchLeaves

\* semantic_search_tweets_in_db: a new session, semantic_search_tweets.
\* The provider answers the query with its vector (answers) or raises.
SemanticSearch(query, author, since, until, limit, key, answers) ==
    /\ pc = "ready"
    /\ "search" \in Ops(universe)
    /\ pc' = "searched"
    /\ startStore' = committed
    /\ startFts' = fts_exists
    /\ UNCHANGED fts_exists
    /\ LET ask == Asked("semantic", query, author, since, until, limit, key)
           ids == EmbeddingsResolveAuthorAccountId(committed, author)
       IN  IF Blank(query) THEN srch' = [ask EXCEPT !.outcome = "ok"]
           ELSE IF ~EmbeddingsAvailable(committed, vec_exists)
           THEN srch' = [ask EXCEPT !.outcome = "EmbeddingsUnavailable",
                                    !.statements = <<"count">>]
           ELSE IF ~key
           THEN srch' = [ask EXCEPT !.outcome = "ConfigError", !.statements = <<"count">>]
           ELSE IF author # <<>> /\ ids = {}
           THEN srch' = [ask EXCEPT !.outcome = "ok", !.statements = <<"count">>]
           ELSE IF ~answers
           THEN srch' = [ask EXCEPT !.outcome = "ProviderError",
                                    !.statements = <<"count">>]
           ELSE \E a \in (IF author = <<>> THEN {NoOwner} ELSE ids) :
                  \E C \in Candidates(committed, Embedding(QueryText(query)), limit, a) :
                     \E order \in Sorted(committed,
                             JoinAndFilter(committed, {r.tweet_id : r \in C}, a,
                                           since, until)) :
                         srch' = [ask EXCEPT !.outcome = "ok",
                                            !.hits = Take(order, limit),
                                            !.statements = <<"count", "knn">>]
    /\ SearchLeaves

Next ==
    \/ /\ pc = "ready"
       /\ nImports < MaxImports
       /\ \E d \in Docs(universe), n \in 1..MaxBatch : StartImport(d, n)
    \/ /\ pc = "ready"
       /\ nImports < MaxImports
       /\ \E d \in Docs(universe), n \in 1..MaxBatch :
             \E cut \in 0..Len(d) : StartImportZip(d, cut, n)
    \/ \E n \in 1..MaxBatch : Reimport(n)
    \/ /\ pc = "ready"
       /\ nEmbeds < MaxEmbeds
       /\ \E n \in 1..MaxBatch, key \in BOOLEAN :
             \E order \in Orderings(SelectRows(committed)) : StartEmbed(n, key, order)
    \/ /\ pc = "embedded"
       /\ \E n \in 1..MaxBatch :
             \E order \in Orderings(SelectRows(committed)) : RetryEmbed(n, order)
    \/ \E ok \in BOOLEAN : EmbedBatch(ok)
    \/ /\ pc = "ready"
       /\ \E query \in Queries, author \in Authors, since \in Sinces, until \in Untils :
             \E limit \in Limits : KeywordSearch(query, author, since, until, limit)
    \/ /\ pc = "ready"
       /\ \E query \in Queries, author \in Authors, since \in Sinces, until \in Untils :
             \E limit \in Limits, key \in BOOLEAN, answers \in BOOLEAN :
                SemanticSearch(query, author, since, until, limit, key, answers)
    \/ Return
    \/ ProcessRecord
    \/ FinishImport

Spec == Init /\ [][Next]_vars

\* --------------------------------------------- the coercions on their own
\* What a coercion call leaves alone: the store and everything of the
\* import, embedding and search calls.
CoercionLeaves ==
    UNCHANGED <<universe, committed, working, fts_exists, startFts, pc, doc, batch_size,
                pos, counter, counts, result, startStore, lastCommitPos, pendingKinds,
                repeat, nImports, archive, vec_exists, emb, nEmbeds, srch>>

\* _safe_int(value)
SafeIntCall(value) ==
    /\ coercion.fn = "none"
    /\ coercion' = [fn |-> "safe_int", arg |-> value, raised |-> FALSE,
                    out |-> SafeInt(value)]
    /\ CoercionLeaves

\* _indices_to_bounds(value or [])
IndicesToBoundsCall(value) ==
    /\ coercion.fn = "none"
    /\ coercion' = IF ListOf(value).raised
                   THEN [fn |-> "indices_to_bounds", arg |-> value, raised |-> TRUE,
                         out |-> None]
                   ELSE [fn |-> "indices_to_bounds", arg |-> value, raised |-> FALSE,
                         out |-> IndicesToBounds(ListOf(value).items)]
    /\ CoercionLeaves

\* _parse_archive_datetime(value)
ParseArchiveDatetimeCall(raw) ==
    /\ coercion.fn = "none"
    /\ coercion' = [fn |-> "parse_archive_datetime", arg |-> raw, raised |-> FALSE,
                    out |-> ParseArchiveDatetime(raw)]
    /\ CoercionLeaves

CoercionReturn ==
    /\ coercion.fn # "none"
    /\ coercion' = NoCoercion
    /\ CoercionLeaves

InitCoercions ==
    /\ Init
    /\ universe = "malformed"

NextCoercions ==
    \/ \E value \in Scalars \cup Arrays : SafeIntCall(value)
    \/ \E value \in Scalars \cup Arrays : IndicesToBoundsCall(value)
    \/ \E raw \in RawValues : ParseArchiveDatetimeCall(raw)
    \/ CoercionReturn

SpecCoercions == InitCoercions /\ [][NextCoercions]_vars

\* ------------------------------------------------------ derived quantities
\* The records 1..n of document d applied in order to store db.
RECURSIVE ApplyPrefix(_, _, _)
ApplyPrefix(s, d, n) ==
    IF n = 0 THEN s
    ELSE ApplyRecord(ApplyPrefix(s, d, n - 1), GetOwnerAccountId(d), d[n])

Fresh(db) == [db |-> db, counts |-> ZeroCounts, raised |-> FALSE]

FnTables == {"account", "profile", "tweet", "note_tweet"}

BagTables == {"upload_options", "like", "follower", "following", "tweet_hashtag",
              "tweet_media", "tweet_fts"}

RowCount(db, t) ==
    IF t \in FnTables THEN Cardinality(DOMAIN db[t]) ELSE BagCardinality(db[t])

FtsRowsOf(db, id) ==
    BagCardinality(Restrict(db.tweet_fts, {r \in DOMAIN db.tweet_fts : r.tweet_id = id}))

FtsRowFor(db, id) ==
    [tweet_id |-> id, account_id |-> db.tweet[id].account_id,
     full_text |-> db.tweet[id].full_text]

Finished == pc = "done"

Succeeded == pc = "done" /\ result = "ok"

PostItem(it) == it.kind \in {"tweet", "community_tweet"} /\ it.form = "ok" /\ it.id # ""

RECURSIVE SumOver(_, _)
SumOver(f, S) ==
    IF S = {} THEN 0
    ELSE LET k == CHOOSE x \in S : TRUE IN f[k] + SumOver(f, S \ {k})

\* ------------------------------------------------------------------ C1
\* A post id of the document that the store already holds under another
\* owner than the document's.
CrossOwnerIds ==
    {id \in DOMAIN startStore.tweet :
        /\ GetOwnerAccountId(doc) # NoOwner
        /\ startStore.tweet[id].account_id # GetOwnerAccountId(doc)
        /\ \E i \in 1..Len(doc) : PostItem(doc[i]) /\ doc[i].id = id}

\* C1: an import whose document carries a post id stored under a different
\* owner fails with CrossOwnerConflict and leaves that post's owner, text
\* and search-index row as they were before the call.
C1_CrossOwnerRejected ==
    (Finished /\ CrossOwnerIds # {}) =>
        /\ result = "CrossOwnerConflict"
        /\ \A id \in CrossOwnerIds :
              /\ id \in DOMAIN committed.tweet
              /\ committed.tweet[id].account_id = startStore.tweet[id].account_id
              /\ committed.tweet[id].full_text = startStore.tweet[id].full_text
              /\ Restrict(committed.tweet_fts,
                           {r \in DOMAIN committed.tweet_fts : r.tweet_id = id})
                   = Restrict(startStore.tweet_fts,
                              {r \in DOMAIN startStore.tweet_fts : r.tweet_id = id})

\* ------------------------------------------------------------------ C2
\* C2: once a post id is stored, its owning account id never changes, over
\* any sequence of imports.
C2_OwnerNeverChanges ==
    [][\A id \in DOMAIN committed.tweet :
          id \in DOMAIN committed'.tweet =>
              committed'.tweet[id].account_id = committed.tweet[id].account_id]_vars

\* ------------------------------------------------------------------ C3
AllTables == FnTables \cup BagTables

SameRowCounts(db1, db2) == \A t \in AllTables : RowCount(db1, t) = RowCount(db2, t)

OneFtsRowPerPost(db) == \A id \in DOMAIN db.tweet : FtsRowsOf(db, id) = 1

\* C3: importing the same document a second time returns zero for every
\* count, leaves the number of rows of every table as the first call left
\* it, and leaves one search-index row per post id.  The first conjunct is
\* the second of two successive calls with one document; the second conjunct
\* repeats the document of any successful call on the store it produced.
C3_ReimportIdempotent ==
    /\ (Succeeded /\ repeat) =>
          /\ counts = ZeroCounts
          /\ SameRowCounts(committed, startStore)
          /\ OneFtsRowPerPost(committed)
    /\ Succeeded =>
          LET again == ApplyPrefix(Fresh(committed), doc, Len(doc))
          IN  /\ ~again.raised
              /\ again.counts = ZeroCounts
              /\ SameRowCounts(again.db, committed)
              /\ OneFtsRowPerPost(again.db)

C3_Witness ==
    /\ Succeeded
    /\ repeat
    /\ \E i \in 1..Len(doc) : PostItem(doc[i]) /\ doc[i].tags # <<>>
    /\ committed.tweet_hashtag # EmptyBag

\* ------------------------------------------------------------------ C4
FtsInSync(db) ==
    /\ \A r \in DOMAIN db.tweet_fts : FtsRowsOf(db, r.tweet_id) <= 1
    /\ \A id \in DOMAIN db.tweet :
          /\ FtsRowsOf(db, id) = 1
          /\ CopiesIn(FtsRowFor(db, id), db.tweet_fts) = 1

\* C4: after any sequence of import calls the search index holds exactly
\* one row for every stored post id, never more than one for any id, and the
\* row carries the post's current text and owner id.
C4_OneCurrentIndexRow == pc \in {"ready", "done"} => FtsInSync(committed)

C4_Witness ==
    /\ Succeeded
    /\ \E id \in DOMAIN startStore.tweet :
          /\ startStore.tweet[id].full_text = "x"
          /\ committed.tweet[id].full_text = "y"
          /\ CopiesIn([tweet_id |-> id, account_id |-> startStore.tweet[id].account_id,
                        full_text |-> "x"], startStore.tweet_fts) = 1

\* ------------------------------------------------------------------ C5
NonEmptyPosts(db) == {id \in DOMAIN db.tweet : db.tweet[id].full_text # ""}

\* C5 as stated: the number of search-index rows equals the number of post
\* rows whose text is non-empty.
C5_IndexRowsAreNonEmptyPosts ==
    BagCardinality(committed.tweet_fts) = Cardinality(NonEmptyPosts(committed))

\* C5 as amended: the number of search-index rows equals the number of post
\* rows, whatever their text; a post with empty text has one index row, which
\* carries the empty text.
C5_IndexRowsArePosts ==
    \A db \in {committed, working} :
        /\ BagCardinality(db.tweet_fts) = Cardinality(DOMAIN db.tweet)
        /\ \A id \in DOMAIN db.tweet \ NonEmptyPosts(db) :
              CopiesIn(FtsRowFor(db, id), db.tweet_fts) = 1

C5_Witness ==
    /\ Succeeded
    /\ \E id \in DOMAIN startStore.tweet :
          /\ startStore.tweet[id].full_text # ""
          /\ committed.tweet[id].full_text = ""
    /\ \E id \in DOMAIN committed.tweet : committed.tweet[id].full_text # ""

\* ------------------------------------------------------------------ C6
NewKeys(t) == DOMAIN committed[t] \ DOMAIN startStore[t]

NewBagRows(t) == BagCardinality(committed[t]) - BagCardinality(startStore[t])

NewPostsOfKind(tag) == {id \in NewKeys("tweet") : committed.tweet[id].tweet_kind = tag}

IdsInList(k) == {doc[i].id : i \in {j \in 1..Len(doc) : doc[j].kind = k /\ PostItem(doc[j])}}

OtherCountsAreInsertedRows ==
    /\ \A t \in {"account", "profile", "note_tweet"} : counts[t] = Cardinality(NewKeys(t))
    /\ \A t \in {"upload_options", "like", "follower", "following", "tweet_hashtag"} :
          counts[t] = NewBagRows(t)
    /\ counts["tweet"] + counts["community_tweet"] = Cardinality(NewKeys("tweet"))

\* C6 as stated: after a successful call the count of every kind is the
\* number of rows of that kind that exist now and did not exist before the
\* call; the two post counts add up to the number of post ids added.
C6_CountsPerKind ==
    Succeeded =>
        /\ OtherCountsAreInsertedRows
        /\ counts["tweet"] = Cardinality(NewPostsOfKind("tweet"))
        /\ counts["community_tweet"] = Cardinality(NewPostsOfKind("community"))

\* C6 as amended: the same, except that a new post id is counted under the
\* list in which the call first meets it (the ordinary list before the
\* community list), which is not the kind it is stored with when the id
\* occurs in both lists.
C6_CountsAreInsertedRows ==
    Succeeded =>
        /\ OtherCountsAreInsertedRows
        /\ counts["tweet"] = Cardinality(NewKeys("tweet") \cap IdsInList("tweet"))
        /\ counts["community_tweet"] =
              Cardinality(NewKeys("tweet") \ IdsInList("tweet"))

C6_Witness ==
    /\ Succeeded
    /\ \E id \in NewKeys("tweet") : id \in IdsInList("tweet") \cap IdsInList("community_tweet")
    /\ counts["tweet_hashtag"] > 0
    /\ \E a \in DOMAIN startStore.account : \E i \in 1..Len(doc) :
          doc[i].kind = "account" /\ doc[i].account_id = a

\* ------------------------------------------------------------------ C7
\* No owner id can be resolved from the first entry of the account list.
Unresolvable(d) ==
    \/ AccountList(d) = <<>>
    \/ AccountList(d)[1].form = "null_item"
    \/ \A i \in 1..Len(AccountList(d)[1].account_id) :
          AccountList(d)[1].account_id[i] = " "

CarriesOwnerScopedKind(d) ==
    \E i \in 1..Len(d) :
        d[i].kind \in {"tweet", "community_tweet", "note_tweet", "like", "follower",
                       "following", "profile", "upload_options"}

\* C7: a document with an owner-scoped record and no resolvable owner fails
\* with the missing-owner error before any write: the store is as it was.
C7_MissingOwnerBeforeWrites ==
    (pc # "ready" /\ Unresolvable(doc) /\ CarriesOwnerScopedKind(doc)) =>
        /\ pc = "done"
        /\ result = "MissingOwner"
        /\ committed = startStore
        /\ working = startStore
        /\ fts_exists = startFts
        /\ counts = ZeroCounts

C7_Witness ==
    /\ result = "MissingOwner"
    /\ committed # EmptyStore
    /\ AccountList(doc) # <<>>
    /\ AccountList(doc)[1].account_id # <<>>

\* ------------------------------------------------------------------ C8
PairTables == {"like", "follower", "following"}

PairRows(db, t, owner, other) ==
    BagCardinality(Restrict(db[t], {r \in DOMAIN db[t] :
                                       r.account_id = owner /\ r.other_id = other}))

PairItems(t) == {i \in 1..Len(doc) : doc[i].kind = t /\ doc[i].id # ""}

LastValue(t, other) ==
    doc[CHOOSE i \in PairItems(t) :
          /\ doc[i].id = other
          /\ \A j \in PairItems(t) : doc[j].id = other => j <= i].text

\* C8: at most one Like, Follower or Following row per (owner id, other id);
\* rows of other owners for the same other id stay as they are; and a pair
\* the document carries has, after the call, its one row with the value the
\* document gives it, the number of rows growing only for pairs that were
\* not there.
C8_OneRowPerPair ==
    /\ \A db \in {committed, working} : \A t \in PairTables :
          \A r \in DOMAIN db[t] : PairRows(db, t, r.account_id, r.other_id) = 1
    /\ Succeeded =>
          \A t \in PairTables :
              /\ \A r \in DOMAIN startStore[t] :
                    r.account_id # GetOwnerAccountId(doc) => CopiesIn(r, committed[t]) = 1
              /\ \A i \in PairItems(t) :
                    CopiesIn([account_id |-> GetOwnerAccountId(doc), other_id |-> doc[i].id,
                              value |-> LastValue(t, doc[i].id)], committed[t]) = 1
              /\ counts[t] =
                    Cardinality({doc[i].id : i \in PairItems(t)}
                                \ {r.other_id : r \in {x \in DOMAIN startStore[t] :
                                        x.account_id = GetOwnerAccountId(doc)}})

C8_Witness ==
    /\ Succeeded
    /\ \E r1 \in DOMAIN committed.like : \E r2 \in DOMAIN committed.like :
          /\ r1.other_id = r2.other_id
          /\ r1.account_id # r2.account_id
          /\ r1 \in DOMAIN startStore.like
          /\ r2 \notin DOMAIN startStore.like
    /\ \E i \in PairItems("like") : \E j \in PairItems("like") :
          i < j /\ doc[i].text # doc[j].text

\* ------------------------------------------------------------------ C9
PendingTotal == SumOver(pendingKinds, KindSet)

Aborted == pc = "done" /\ result = "error"

\* C10: after a call aborted by an error in some record, the committed
\* store is the store at the start of the call with exactly the records up
\* to the last batch commit applied, and nothing of the failing record or of
\* any record after that commit.
C10_AbortKeepsFlushedBatches ==
    Aborted =>
        /\ lastCommitPos < pos
        /\ committed = ApplyPrefix(Fresh(startStore), doc, lastCommitPos).db
        /\ working = committed

C10_Witness ==
    /\ Aborted
    /\ lastCommitPos > 0
    /\ doc[pos].form = "bad_indices"
    /\ committed # startStore
    /\ startStore # EmptyStore

\* ----------------------------------------------------------------- C11
HasRepeat(seq) == \E i \in 1..Len(seq) : \E j \in 1..Len(seq) : i < j /\ seq[i] = seq[j]

NoTwinAttachments(db) ==
    /\ \A r \in DOMAIN db.tweet_hashtag : CopiesIn(r, db.tweet_hashtag) = 1
    /\ \A r \in DOMAIN db.tweet_media :
          /\ CopiesIn(r, db.tweet_media) = 1
          /\ SameMedia(db, r.tweet_id, r) = {r}

\* C11: no post has two hashtag rows, or two media rows, that agree in the
\* fields the existence check compares (for a hashtag every stored field,
\* for a media row the post id, the entity type and the media id); an
\* attachment of the document that is already stored, from an earlier import
\* or from an earlier entry of the same document, inserts no row and is not
\* counted: the counts are the rows added.
C11_NoTwinAttachments ==
    /\ NoTwinAttachments(committed) /\ NoTwinAttachments(working)
    /\ Succeeded =>
          /\ counts["tweet_hashtag"] = NewBagRows("tweet_hashtag")
          /\ counts["tweet_media"] = NewBagRows("tweet_media")
          /\ \A r \in DOMAIN startStore.tweet_media : BagIn(r, committed.tweet_media)

C11_Witness ==
    /\ Succeeded
    /\ \E i \in 1..Len(doc) :
          /\ doc[i].kind = "tweet"
          /\ HasRepeat(doc[i].tags)
          /\ \E j \in 1..Len(doc[i].media) :
                \E r \in SameMedia(startStore, doc[i].id, doc[i].media[j]) :
                    r.media_type # doc[i].media[j].media_type
    /\ counts["tweet_media"] = 1
    /\ counts["tweet_hashtag"] = 0
    /\ startStore.tweet_hashtag # EmptyBag

\* ----------------------------------------------------------------- C12
\* The keys of the rows of table t: the primary key, or the fields the
\* importer looks a row up by.
KeysOf(db, t) ==
    IF t \in FnTables THEN DOMAIN db[t]
    ELSE IF t = "upload_options" THEN {r.account_id : r \in DOMAIN db[t]}
    ELSE IF t \in PairTables THEN {<<r.account_id, r.other_id>> : r \in DOMAIN db[t]}
    ELSE IF t = "tweet_media"
         THEN {<<r.tweet_id, r.entity_type, r.media_id>> : r \in DOMAIN db[t]}
    ELSE DOMAIN db[t]

EntityTables == AllTables \ {"tweet_fts"}

NothingDeleted(before, after) ==
    \A t \in EntityTables :
        /\ KeysOf(before, t) \subseteq KeysOf(after, t)
        /\ RowCount(before, t) <= RowCount(after, t)

\* C12: an import call deletes nothing: every account, profile,
\* upload-options, post, note, like, follower, following and attachment row
\* that was there (by its key) when the call began is there at every commit
\* of the call and when it has returned or failed, and no table has fewer
\* rows than it had.
C12_NothingDeleted ==
    pc \in {"run", "done"} =>
        /\ committed = startStore \/ NothingDeleted(startStore, committed)
        /\ working = committed \/ NothingDeleted(startStore, working)

C12_Witness ==
    /\ Succeeded
    /\ \E r \in DOMAIN startStore.like : ~BagIn(r, committed.like)
    /\ RowCount(startStore, "like") = RowCount(committed, "like")
    /\ startStore.account # EmptyFn

EmbedReturned == pc = "embedded" /\ result = "ok"

EmbedFailed == pc = "embedded" /\ result = "ProviderError"

VectorRowsOf(db, id) ==
    BagCardinality(Restrict(db.tweet_embedding,
                            {r \in DOMAIN db.tweet_embedding : r.tweet_id = id}))

\* One vector row for every post with non-empty text, with that text's
\* vector, and no other row.
ExactIndex(db) ==
    /\ \A id \in NonEmptyPosts(db) :
          VectorRowsOf(db, id) = 1 /\ CopiesIn(VecRow(db, id), db.tweet_embedding) = 1
    /\ \A r \in DOMAIN db.tweet_embedding : r.tweet_id \in NonEmptyPosts(db)

\* C14: after an embedding run that returned without error, whatever the
\* vector index held before, the index holds one row for each stored post
\* with non-empty text and no row for any other post.
C14_IndexIsNonEmptyPosts == EmbedReturned => ExactIndex(committed)

\* ----------------------------------------------------------------- C15
SeqToSet(seq) == {seq[i] : i \in 1..Len(seq)}

SelfConsistent(db) ==
    /\ \A r \in DOMAIN db.tweet_embedding :
          r.tweet_id \in DOMAIN db.tweet /\ VectorRowsOf(db, r.tweet_id) = 1
    /\ BagCardinality(db.tweet_embedding) <= Cardinality(DOMAIN db.tweet)

\* The vector rows of the first n posts of the run's select.
RECURSIVE RowsOfBatches(_, _, _)
RowsOfBatches(db, rows, n) ==
    IF n = 0 THEN EmptyBag
    ELSE BagAdd(RowsOfBatches(db, rows, n - 1), VecRow(db, rows[n]))

Searched(kind) == pc = "searched" /\ srch.kind = kind

AllSpaces(query) == \A i \in 1..Len(query) : query[i] = " "

NoVectors == ~vec_exists \/ committed.tweet_embedding = EmptyBag

StoreUntouched ==
    /\ committed = startStore
    /\ working = startStore

\* C17 as stated: every semantic search made while the vector index holds
\* no rows fails with EmbeddingsUnavailable, whatever the query, and leaves
\* the store unchanged.
C17_NoVectorsAlwaysUnavailable ==
    (Searched("semantic") /\ NoVectors) =>
        /\ srch.outcome = "EmbeddingsUnavailable"
        /\ StoreUntouched

\* C17 as amended: a semantic search made while the vector index holds no
\* rows fails with EmbeddingsUnavailable when its query is not blank,
\* whatever the filters and the credential are, and returns no result and
\* no error when its query is empty or white space; it leaves the store
\* unchanged either way.
C17_NoVectorsUnavailableUnlessBlank ==
    (Searched("semantic") /\ NoVectors) =>
        /\ StoreUntouched
        /\ srch.hits = <<>>
        /\ srch.outcome = (IF AllSpaces(srch.query) THEN "ok" ELSE "EmbeddingsUnavailable")

C17_Witness ==
    /\ Searched("semantic")
    /\ NoVectors
    /\ srch.outcome = "EmbeddingsUnavailable"
    /\ ~srch.key
    /\ srch.author # <<>>
    /\ srch.since # NoDay
    /\ committed.tweet # EmptyFn

\* ----------------------------------------------------------------- C18
\* The indexed posts whose text is the query's text and which no filter of
\* the search excludes.
ExactMatches ==
    {id \in NonEmptyPosts(committed) :
        /\ committed.tweet[id].full_text = QueryText(srch.query)
        /\ HasVector(committed, id)
        /\ committed.tweet[id].account_id \in DOMAIN committed.account
        /\ srch.author = <<>>
        /\ srch.since = NoDay
        /\ srch.until = NoDay}

\* C18: after a completed embedding run, a semantic search whose query is
\* the text of an indexed post that no filter excludes returns, for any
\* limit, a first result whose text is the query's text (a post at distance
\* zero, ahead of every post that is farther).
C18_ExactMatchRanksFirst ==
    (Searched("semantic") /\ srch.outcome = "ok" /\ ExactIndex(committed)
        /\ ExactMatches # {}) =>
        /\ srch.hits # <<>>
        /\ srch.hits[1] \in ExactMatches

\* ----------------------------------------------------------------- C19
\* The day of a timestamp lies in the range the two dates give (a date
\* that is not given bounds nothing; no timestamp lies in no range).
InDays(t, since, until) ==
    /\ since # NoDay => (t # NullTime /\ t >= since * TicksPerDay)
    /\ until # NoDay => (t # NullTime /\ t < (until + 1) * TicksPerDay)

\* The post ids the index lookup of the search can give when the limit
\* cuts nothing off: the posts whose index row matches the query, or the
\* posts with a vector row.
Lookup ==
    IF srch.kind = "keyword"
    THEN {r.tweet_id : r \in {x \in DOMAIN committed.tweet_fts :
                                 Match(srch.query, x.full_text)}}
    ELSE {r.tweet_id : r \in DOMAIN committed.tweet_embedding}

HitSet == SeqToSet(srch.hits)

AnsweredSearch ==
    /\ pc = "searched"
    /\ srch.outcome = "ok"
    /\ ~AllSpaces(srch.query)

\* C19: under keyword and semantic search, with a since date or an until
\* date no returned post has a null timestamp and every returned post lies
\* in the days from since to until; and when no author is given and the
\* limit is not below the number of posts the index lookup gives, the
\* result holds every such post whose owner has an account row and whose
\* timestamp lies in those days, the whole since day and the whole until
\* day included, and with neither date the posts without timestamp too.
C19_DateRangeInclusiveNullExcluded ==
    AnsweredSearch =>
        /\ \A id \in HitSet :
              InDays(committed.tweet[id].created_at, srch.since, srch.until)
        /\ (srch.author = <<>> /\ srch.limit >= Cardinality(Lookup)) =>
              HitSet = {id \in Lookup :
                           /\ committed.tweet[id].account_id \in DOMAIN committed.account
                           /\ InDays(committed.tweet[id].created_at, srch.since,
                                     srch.until)}

C19_Witness ==
    /\ AnsweredSearch
    /\ srch.since # NoDay
    /\ srch.author = <<>>
    /\ srch.limit >= Cardinality(Lookup)
    /\ \E id \in HitSet : committed.tweet[id].created_at = srch.since * TicksPerDay
    /\ \E id \in Lookup : committed.tweet[id].created_at = NullTime

\* ----------------------------------------------------------------- C20
\* C20: a keyword search whose query is empty or white space returns the
\* empty result, whatever the store and the filters are, and issues no
\* statement against the search index: no query, and the index is not
\* created when it does not exist.
C20_BlankQueryTouchesNothing ==
    (Searched("keyword") /\ AllSpaces(srch.query)) =>
        /\ srch.outcome = "ok"
        /\ srch.hits = <<>>
        /\ srch.statements = <<>>
        /\ fts_exists = startFts
        /\ StoreUntouched

C20_Witness ==
    /\ Searched("keyword")
    /\ srch.query # <<>>
    /\ AllSpaces(srch.query)
    /\ srch.author # <<>>
    /\ srch.until # NoDay
    /\ ~fts_exists
    /\ srch.hits = <<>>

\* ----------------------------------------------------------------- C21
\* The words of a handle: what is neither white space nor an at sign.
HandleWords(author) == {author[i] : i \in 1..Len(author)} \ {" ", "@"}

UnknownAuthor ==
    /\ srch.author # <<>>
    /\ \A a \in DOMAIN committed.account :
          committed.account[a].username \notin HandleWords(srch.author)

\* C21: a keyword search with a query that is not blank and an author
\* handle that is the username of no stored account returns the empty
\* result and no error, also when posts of stored accounts match the query.
C21_UnknownAuthorGivesEmpty ==
    (Searched("keyword") /\ ~AllSpaces(srch.query) /\ UnknownAuthor) =>
        /\ srch.outcome = "ok"
        /\ srch.hits = <<>>

C21_Witness ==
    /\ Searched("keyword")
    /\ ~AllSpaces(srch.query)
    /\ UnknownAuthor
    /\ srch.since = NoDay
    /\ srch.until = NoDay
    /\ Lookup # {}
    /\ committed.account # EmptyFn
    /\ srch.hits = <<>>

\* ----------------------------------------------------------------- C22
\* C22: keyword search and semantic search change nothing: whatever the
\* query and the filters are and whether the call returns results, returns
\* the empty result or fails, the entity rows, the search-index rows, the
\* vector rows and the index structures that exist are after the call what
\* they were before it.
C22_SearchChangesNothing ==
    [][pc' = "searched" =>
          /\ committed' = committed
          /\ working' = working
          /\ fts_exists' = fts_exists
          /\ vec_exists' = vec_exists]_vars

\* ----------------------------------------------------------------- C23
\* The post record the import has processed last, when there is one and
\* the post is stored.
LastPostStored ==
    /\ pc \in {"run", "done"}
    /\ pos > 1
    /\ PostItem(doc[pos - 1])
    /\ Owner # NoOwner
    /\ doc[pos - 1].id \in DOMAIN working.tweet

WellFormedTimestamp(raw) == raw.form \in {"iso", "naive", "verbose"}

\* C23: the created-at value of a post record is stored as a non-null UTC
\* timestamp (local time less the offset) when it is well formed in the
\* verbose form or in the ISO form, and as null, the record being stored
\* all the same, when it is absent, empty or cannot be parsed.
C23_CoercesBothFormats ==
    LastPostStored =>
        LET raw == doc[pos - 1].created_at
            t   == working.tweet[doc[pos - 1].id].created_at
        IN  IF WellFormedTimestamp(raw)
            THEN t # NullTime /\ t = raw.local - raw.off
            ELSE t = NullTime

\* ----------------------------------------------------------------- C24
\* A value that is an integer or a string of digits (white space around
\* them allowed).
ValidInteger(value) ==
    \/ value.t = "int"
    \/ /\ value.t = "str"
       /\ \E i \in 1..Len(value.s) : IsDigit(value.s[i])
       /\ \A i \in 1..Len(value.s) : IsDigit(value.s[i]) \/ value.s[i] = " "
       /\ \A i \in 1..Len(value.s) : \A j \in i..Len(value.s) :
             (IsDigit(value.s[i]) /\ IsDigit(value.s[j])) =>
                 \A k \in i..j : IsDigit(value.s[k])

IndexPairCoerced ==
    /\ coercion.fn = "indices_to_bounds"
    /\ coercion.arg.t = "list"

\* C24: the index-pair coercion of an array gives two integers when the
\* array has exactly two elements and both are valid integers, and gives
\* (null, null) in every other case, an array of two elements of which
\* only one is a valid integer included.
C24_BothIntegersOrBothNull ==
    IndexPairCoerced =>
        LET items == coercion.arg.items
        IN  /\ ~coercion.raised
            /\ IF Len(items) = 2 /\ ValidInteger(items[1]) /\ ValidInteger(items[2])
               THEN coercion.out[1] # None /\ coercion.out[2] # None
               ELSE coercion.out = <<None, None>>

\* ----------------------------------------------------------------- C25
\* Every record of the document is a mapping: what is malformed in it, if
\* anything, is the value of a field.
AllRecordsAreMappings(d) == \A i \in 1..Len(d) : d[i].form # "null_item"

\* C25: the coercions of field values never raise, so an import of a
\* document whose records are mappings, with an owner that can be resolved,
\* completes whatever the shapes of the field values are (null, integer,
\* string, a scalar where an array is expected, an array of the wrong
\* length).
C25_MalformedFieldValuesNeverAbort ==
    (Finished /\ AllRecordsAreMappings(doc) /\ result # "MissingOwner") =>
        result = "ok"

\* ----------------------------------------------------------------- C26
\* The post row that importing record it into an empty store stores.
FirstInsert(owner, it) ==
    UpsertPost(Fresh(EmptyStore), owner, it, it.kind).db.tweet[it.id]

\* C26: after an import has inserted or updated a post from record R, every
\* scalar field of the stored post (owner, text, timestamp, kind tag,
\* community id) is what a first insert of R into an empty store stores:
\* nothing of an earlier version of the post is left.
C26_UpdateEqualsFirstInsert ==
    LastPostStored =>
        working.tweet[doc[pos - 1].id] = FirstInsert(Owner, doc[pos - 1])

\* ----------------------------------------------------------------- C27
IndexRowsOfPost(db, id) == {r \in DOMAIN db.tweet_fts : r.tweet_id = id}

\* C27: in every committed store state, at each batch commit of an import,
\* at its final commit and in between, every post has its index row and the
\* row has the post's text and owner, and every index row is the one row of
\* a stored post: a post upsert and the replacement of its index row are
\* never committed apart.
C27_PostAndIndexRowCommittedTogether ==
    /\ \A id \in DOMAIN committed.tweet :
          \E r \in IndexRowsOfPost(committed, id) :
              /\ r.full_text = committed.tweet[id].full_text
              /\ r.account_id = committed.tweet[id].account_id
    /\ \A r \in DOMAIN committed.tweet_fts :
          /\ r.tweet_id \in DOMAIN committed.tweet
          /\ r.full_text = committed.tweet[r.tweet_id].full_text
          /\ committed.tweet_fts[r] = 1

C27_Witness ==
    /\ pc = "run"
    /\ lastCommitPos > 0
    /\ pos <= Len(doc)
    /\ PostItem(doc[pos])
    /\ committed # startStore
    /\ \E id \in DOMAIN startStore.tweet :
          committed.tweet[id].full_text # startStore.tweet[id].full_text

\* ----------------------------------------------------------------- C28
\* C28: keyword search and semantic search resolve the author handle of a
\* call alike, whatever the handle (leading at signs, white space around
\* it) and the store are: to the same owner id or both to none.
C28_SameAuthorResolution ==
    (pc = "searched" /\ srch.author # <<>>) =>
        ResolveAuthorAccountId(committed, srch.author)
            = EmbeddingsResolveAuthorAccountId(committed, srch.author)

\* ----------------------------------------------------------------- C29
\* The store and the counts that applying the whole document to the store
\* the call started from gives, no batch size involved.
WholeDocument == ApplyPrefix(Fresh(startStore), doc, Len(doc))

\* C29: a successful import leaves the store and returns the counts that
\* applying the records of the document one after the other gives, whatever
\* the batch size is (so any two batch sizes give the same), and when it
\* returns every write it made is committed: nothing is pending.
C29_BatchSizeChangesNoOutcome ==
    Succeeded =>
        /\ committed = WholeDocument.db
        /\ counts = WholeDocument.counts
        /\ working = committed
        /\ \A k \in KindSet : pendingKinds[k] = 0

C29_Witness ==
    /\ Succeeded
    /\ batch_size > 1
    /\ startStore # EmptyStore
    /\ \E k \in BatchedKinds : counter[k] > 0 /\ counter[k] % batch_size # 0
    /\ committed # startStore

\* ----------------------------------------------------------------- C30
\* The owner ids that the owner-scoped rows of a store carry.
OwnerIdsIn(db) ==
    {db.tweet[i].account_id : i \in DOMAIN db.tweet}
        \cup {db.note_tweet[i].account_id : i \in DOMAIN db.note_tweet}
        \cup DOMAIN db.profile
        \cup UNION {{r.account_id : r \in DOMAIN db[k]} :
                       k \in {"upload_options", "like", "follower", "following"}}

\* C30: after a successful import the owner id that the owner-scoped rows
\* it wrote carry is the key of an Account row of the store, and every post
\* of that owner with a search-index row has its account to be joined with.
C30_OwnerIdIsAnAccountKey ==
    (Succeeded /\ Owner # NoOwner /\ Owner \in OwnerIdsIn(committed)) =>
        /\ Owner \in DOMAIN committed.account
        /\ \A r \in DOMAIN committed.tweet_fts :
              r.account_id = Owner => r.account_id \in DOMAIN committed.account

====
